---- MODULE Spec2Model ----
(***************************************************************************)
(* Wave_classifier.py: one procedural script.  The model follows the      *)
(* script's control flow stage by stage; every call into the simulation   *)
(* framework (encoders, network.run, all_activity, proportion_weighting,   *)
(* assign_labels) is an opaque call whose result is chosen                 *)
(* nondeterministically within the shape the call site fixes.              *)
(***************************************************************************)
EXTENDS Integers, Sequences, FiniteSets, TLC

(* ------------------------------ bounds -------------------------------- *)
MaxSamples == 4
MaxInterval == 2
MaxEpochs == 2
MaxTokens == 258
MaxParsed == 2

(* ------------------------- program constants -------------------------- *)
Fft1Start == 16
Fft1Stop == 80
Fft2Start == 96
Fft2Stop == 160
Fft3Start == 192
Fft3Stop == 256
Fft4Start == 256
PlotFeatures == 256
DefaultNTrain == 1
DefaultNTest == 1
DefaultInterval == 1
DefaultEpochs == 1

EncoderNames ==
    {"PoissonEncoder", "RankOrderEncoder", "RankOrderTTFSEncoder",
     "BernoulliEncoder", "SingleEncoder", "RepeatEncoder"}

\* values --encoder is drawn from: the six names and two that are none of them
EncoderArgs == EncoderNames \cup {"poissonencoder", "LatencyEncoder"}

\* class labels of the input file (the script's "label 1" / "label 0")
Labels == {0, 1}

\* --test_ratio in percent
TestRatios == {25, 50}

Unbound == "unbound"
NoLine == [kind |-> "none", n |-> 0, last |-> 0]
Zero == [phase |-> "zeros", epoch |-> 0, step |-> 0]
NoCounts == [TP |-> 0, FP |-> 0, TN |-> 0, FN |-> 0]
\* epoch before line 246 binds it
NoEpoch == -1
\* line 206: assignments = -torch.ones(n_neurons), no neuron assigned yet
NoAssignments == [spikes |-> <<>>, labels |-> <<>>]

VARIABLES
    pc,                \* the statement the script is at
    raised,            \* the exception that ended the run, "none" while running
    enocder_type, encoder, err_printed,
    gpu, train, update_interval, n_test, n_train, n_epochs, test_ratio,
    line,              \* the line the parsing loop read last
    nonblank,          \* number of lines read that are neither comment nor blank
    fft_in,            \* the slices handed to np.fft.fft for that line
    classes, wave_data,
    train_data, test_data, n_classes, num_inputs,
    network,           \* "none", "train" (built, learning on), "eval" (train(False))
    spike_record, labels, accuracy, assignments, epoch, step,
    all_activity_pred, proportion_pred, confusion_matrix

vars == <<pc, raised, enocder_type, encoder, err_printed, gpu, train,
          update_interval, n_test, n_train, n_epochs, test_ratio, line,
          nonblank, fft_in, classes, wave_data, train_data, test_data,
          n_classes, num_inputs, network, spike_record, labels, accuracy, assignments,
          epoch, step, all_activity_pred, proportion_pred, confusion_matrix>>

cfgVars == <<enocder_type, gpu, train, update_interval, n_epochs, test_ratio>>
parseVars == <<line, nonblank, fft_in, classes, wave_data>>
splitVars == <<train_data, test_data, n_classes, num_inputs>>
loopVars == <<spike_record, labels, accuracy, assignments, epoch, step,
              all_activity_pred, proportion_pred, confusion_matrix>>

(* ----------------------------- helpers -------------------------------- *)
\* the function f on 1 .. n as a sequence
AsSeq(f) == f \o <<>>

Last(q) == q[Len(q)]
Min(a, b) == IF a < b THEN a ELSE b
Max(a, b) == IF a > b THEN a ELSE b

\* a Python slice xs[start:stop] of a list of n items, as the set of indices taken
Slice(n, start, stop) == Min(start, n) .. (Min(stop, n) - 1)

\* line 159: the stop of the fourth slice, len(linedata) - 1
Fft4StopAll(n) == n
Fft4Stop(n) == n - 1

\* lines 156-159: the four slices of linedata, in the order they are taken
FftSlices(n) ==
    << Slice(n, Fft1Start, Fft1Stop),
       Slice(n, Fft2Start, Fft2Stop),
       Slice(n, Fft3Start, Fft3Stop),
       Slice(n, Fft4Start, Fft4Stop(n)) >>

\* line 164: cl = complex(linedata[-1])
LabelOf(l) == l.last

\* lines 160-162: one intensity per FFT output, one FFT output per token taken
Features(n) ==
    LET ws == FftSlices(n)
    IN Cardinality(ws[1]) + Cardinality(ws[2]) + Cardinality(ws[3])
       + Cardinality(ws[4])

\* line 170: one entry of wave_data; the encoded image is kept as its width
Sample(l) == [label |-> LabelOf(l), n_features |-> Features(l.n)]

\* np.fft.fft raises ValueError on an empty input: the index of the first
\* slice that is empty, 0 when none is
FirstEmpty(ws) ==
    IF \E i \in 1 .. Len(ws) : ws[i] = {}
    THEN CHOOSE i \in 1 .. Len(ws) : ws[i] = {} /\ \A j \in 1 .. (i - 1) : ws[j] # {}
    ELSE 0

\* the slices np.fft.fft was actually called with, the failing call included
FftCalls(ws) == IF FirstEmpty(ws) = 0 THEN ws ELSE SubSeq(ws, 1, FirstEmpty(ws))

\* line 149: line[0] == "#"
IsCommentNever(l) == FALSE
IsComment(l) == l.kind = "comment"

\* line 152: every token of the line is accepted by complex()
Parses(l) == l.kind = "tokens"

\* line 153: len(linedata) == 0
IsBlank(l) == l.n = 0

\* lines 113-132: the if/elif chain; Unbound when no branch assigns encoder
SelectEncoderFirst(name) == IF name \in EncoderNames THEN name ELSE "PoissonEncoder"
SelectEncoder(name) == IF name \in EncoderNames THEN name ELSE Unbound

\* lines 107-108: if not train: update_interval = n_test
EffectiveInterval(tr, ui, nt) == IF tr THEN ui ELSE nt

\* a line of the input file: a comment, or a list of n tokens of which the model
\* keeps the last; "malformed" holds a token complex() rejects
LinesOf(Toks) ==
    {[kind |-> "comment", n |-> 0, last |-> 0],
     [kind |-> "malformed", n |-> 1, last |-> 0]}
    \cup {[kind |-> "tokens", n |-> 0, last |-> 0]}
    \cup {[kind |-> "tokens", n |-> k, last |-> b] : k \in Toks \ {0}, b \in Labels}

\* whether the file format counts the line as a sample line
IsSampleLine(l) == l.kind # "comment" /\ ~(l.kind = "tokens" /\ l.n = 0)

(* ------------------------------- Init --------------------------------- *)
\* the state at line 113: arguments parsed (lines 32-78), device chosen
\* (lines 88-96: gpu ends TRUE exactly when cuda is available), lines 107-108 done
InitWith(Encs, Intervals, NTests, Epochs, Ratios) ==
    /\ pc = "encoder"
    /\ raised = "none"
    /\ enocder_type \in Encs
    /\ encoder = Unbound
    /\ err_printed = FALSE
    /\ gpu \in BOOLEAN
    /\ train \in BOOLEAN
    /\ n_test \in NTests
    /\ n_train = DefaultNTrain
    /\ \E ui \in Intervals : update_interval = EffectiveInterval(train, ui, n_test)
    /\ n_epochs \in Epochs
    /\ test_ratio \in Ratios
    /\ line = NoLine
    /\ nonblank = 0
    /\ fft_in = <<>>
    /\ classes = <<>>
    /\ wave_data = <<>>
    /\ train_data = <<>>
    /\ test_data = <<>>
    /\ n_classes = 0
    /\ num_inputs = 0
    /\ network = "none"
    /\ spike_record = <<>>
    /\ labels = <<>>
    /\ accuracy = [all |-> <<>>, proportion |-> <<>>]
    /\ assignments = NoAssignments
    /\ epoch = NoEpoch
    /\ step = -1
    /\ all_activity_pred = <<>>
    /\ proportion_pred = <<>>
    /\ confusion_matrix = NoCounts

Init ==
    InitWith({"PoissonEncoder", "LatencyEncoder"}, 1 .. MaxInterval,
             1 .. MaxInterval, 0 .. MaxEpochs, TestRatios)

\* every --encoder value, the other arguments at their defaults
InitParse ==
    /\ InitWith(EncoderArgs, {DefaultInterval}, {DefaultNTest}, {DefaultEpochs},
                TestRatios)
    /\ gpu /\ train /\ test_ratio = 50

(* ------------------------------ actions ------------------------------- *)
Raise(e) == pc' = "crashed" /\ raised' = e

\* lines 113-132
EncoderSelection ==
    /\ pc = "encoder"
    /\ encoder' = SelectEncoder(enocder_type)
    /\ err_printed' = (encoder' = Unbound)
    /\ pc' = "parse"
    /\ UNCHANGED <<raised, cfgVars, n_test, n_train, parseVars, splitVars,
                   network, loopVars>>

\* lines 148-170: one pass of the per-line loop, on a line drawn from Lines, in
\* a file of at most cap lines that are neither comment nor blank
ParseLine(Lines, cap) ==
    /\ pc = "parse"
    /\ \E l \in Lines :
        /\ IsSampleLine(l) => nonblank < cap
        /\ line' = l
        /\ nonblank' = IF IsSampleLine(l) THEN nonblank + 1 ELSE nonblank
        /\ IF IsComment(l)
           THEN UNCHANGED <<pc, raised, fft_in, classes, wave_data>>
           ELSE IF ~Parses(l)
           THEN Raise("ValueError") /\ UNCHANGED <<fft_in, classes, wave_data>>
           ELSE IF IsBlank(l)
           THEN UNCHANGED <<pc, raised, fft_in, classes, wave_data>>
           ELSE LET ws == FftSlices(l.n) IN
                /\ fft_in' = FftCalls(ws)
                /\ IF FirstEmpty(ws) # 0
                   THEN Raise("ValueError") /\ UNCHANGED <<classes, wave_data>>
                   ELSE /\ classes' = Append(classes, LabelOf(l))
                        /\ IF encoder = Unbound
                           THEN Raise("NameError") /\ UNCHANGED wave_data
                           ELSE /\ wave_data' = Append(wave_data, Sample(l))
                                /\ UNCHANGED <<pc, raised>>
    /\ UNCHANGED <<encoder, err_printed, cfgVars, n_test, n_train, splitVars,
                   network, loopVars>>

\* line 171: the file is exhausted.  line and the FFT inputs are never read
\* after the loop, and the model stops carrying them here.
CloseFile ==
    /\ pc = "parse"
    /\ pc' = "split"
    /\ line' = NoLine
    /\ fft_in' = <<>>
    /\ UNCHANGED <<raised, encoder, err_printed, cfgVars, n_test, n_train,
                   nonblank, classes, wave_data, splitVars, network, loopVars>>

\* sklearn's train_test_split(test_size=ratio): n_test = ceil(ratio * n)
CeilPct(pct, n) == (pct * n + 99) \div 100

\* the orders train_test_split can shuffle n samples into
Orders ==
    [n \in 0 .. (MaxSamples + 1) |->
        {p \in [1 .. n -> 1 .. n] : \A i, j \in 1 .. n : p[i] = p[j] => i = j}]
Shuffles(n) == Orders[n]

\* line 174: the test part and the train part of wave shuffled into order p
Parts(wave, p, nt) ==
    [test |-> AsSeq([i \in 1 .. nt |-> wave[p[i]]]),
     train |-> AsSeq([i \in 1 .. (Len(wave) - nt) |-> wave[p[nt + i]]])]

\* line 178: n_train = len(train_data)
SplitNTrainStale(old, data) == old
SplitNTrain(old, data) == Len(data)

\* line 179: n_test = len(test_data)
SplitNTest(old, data) == Len(data)

\* lines 174-183: shuffle and split, then the sizes are taken from the lists.
\* train_test_split raises ValueError when the train part would be empty.
\* wave_data and classes are never read after line 176, and the model stops
\* carrying them, and the count of their lines, here.
Split ==
    /\ pc = "split"
    /\ LET n == Len(wave_data)
           nt == CeilPct(test_ratio, n)
       IN IF n = 0 \/ n - nt <= 0
          THEN /\ Raise("ValueError")
               /\ UNCHANGED <<n_test, n_train, splitVars, parseVars>>
          ELSE /\ \E s \in {Parts(wave_data, p, nt) : p \in Shuffles(n)} :
                    /\ test_data' = s.test
                    /\ train_data' = s.train
               /\ n_classes' = Cardinality({classes[i] : i \in 1 .. Len(classes)})
               /\ n_train' = SplitNTrain(n_train, train_data')
               /\ n_test' = SplitNTest(n_test, test_data')
               /\ num_inputs' = Last(train_data').n_features
               /\ wave_data' = <<>>
               /\ classes' = <<>>
               /\ nonblank' = 0
               /\ pc' = "build"
               /\ UNCHANGED <<raised, line, fft_in>>
    /\ UNCHANGED <<encoder, err_printed, cfgVars, network, loopVars>>

\* lines 203 and 374: torch.zeros((update_interval, ...))
ZeroRecord(ui) == AsSeq([i \in 1 .. ui |-> Zero])

\* lines 186-240: network construction, buffers, monitor wiring
Build ==
    /\ pc = "build"
    /\ network' = "train"
    /\ spike_record' = ZeroRecord(update_interval)
    /\ assignments' = NoAssignments
    /\ accuracy' = [all |-> <<>>, proportion |-> <<>>]
    /\ pc' = "epoch"
    /\ UNCHANGED <<raised, encoder, err_printed, cfgVars, n_test, n_train,
                   parseVars, splitVars, labels, epoch, step, all_activity_pred,
                   proportion_pred, confusion_matrix>>

\* line 246: range(n_epochs)
EpochRangeShort(n) == 0 .. (n - 2)
EpochRange(n) == 0 .. (n - 1)

\* line 247: labels = []
EpochStartLabelsKept(ls) == ls
EpochStartLabels(ls) == <<>>

\* line 318: labels = []
ScoredLabels(ls) == <<>>

\* line 260: step % update_interval == 0 and step > 0
ScoreNowAlsoFirst(s, ui) == s % ui = 0
ScoreNow(s, ui) == s % ui = 0 /\ s > 0

\* line 335: the slot written, spike_record[step % update_interval]
TrainSlotFirst(s, ui) == 0
TrainSlot(s, ui) == s % ui

\* line 400: spike_record[0]
TestSlot(s, ui) == 0

\* lines 253 and 384: if step > bound: break
Breaks(s, bound) == s > bound

\* the value appended at lines 279-290: a percentage decided by the framework's
\* predictions, kept symbolic and tagged with the point it was computed at
Score(e, s) == [epoch |-> e, step |-> s]

\* the spike record network.run leaves in the "Ae" monitor for one sample
Spikes(ph, e, s) == [phase |-> ph, epoch |-> e, step |-> s]

\* lines 246-250: head of the epoch loop; step = -1 stands for "enumerate has
\* yielded nothing yet in this epoch"
EpochHead ==
    /\ pc = "epoch"
    /\ LET nxt == IF epoch = NoEpoch THEN 0 ELSE epoch + 1
       IN IF nxt \in EpochRange(n_epochs)
          THEN /\ epoch' = nxt
               /\ labels' = EpochStartLabels(labels)
               /\ step' = -1
               /\ pc' = "sample"
          ELSE /\ pc' = "trained"
               /\ UNCHANGED <<epoch, labels, step>>
    /\ UNCHANGED <<raised, encoder, err_printed, cfgVars, n_test, n_train,
                   parseVars, splitVars, network, spike_record, accuracy,
                   assignments, all_activity_pred, proportion_pred,
                   confusion_matrix>>

\* lines 256 and 387: batch["encoded_image"].view(time, 1, 1, num_inputs, 1)
\* raises RuntimeError unless the sample is num_inputs wide
Fits(sample, width) == sample.n_features = width

\* lines 339-340: plot is always on (line 55), and the two views
\* .view(256, 500) and .view(16, 16) raise RuntimeError on any other width
Plots(sample, width) == sample.n_features = PlotFeatures /\ width = PlotFeatures

\* lines 252-364: one training sample
TrainSample ==
    /\ pc = "sample"
    /\ LET s == step + 1 IN
        /\ s < Len(train_data)
        /\ ~Breaks(s, n_train)
        /\ step' = s
        /\ IF ~Fits(train_data[s + 1], num_inputs)
           THEN /\ Raise("RuntimeError")
                /\ UNCHANGED <<accuracy, assignments, labels, spike_record>>
           ELSE /\ IF ScoreNow(s, update_interval)
                   THEN /\ accuracy' =
                             [all |-> Append(accuracy.all, Score(epoch, s)),
                              proportion |->
                                  Append(accuracy.proportion, Score(epoch, s))]
                        /\ assignments' =
                             [spikes |-> spike_record, labels |-> labels]
                        /\ labels' =
                             Append(ScoredLabels(labels), train_data[s + 1].label)
                   ELSE /\ labels' = Append(labels, train_data[s + 1].label)
                        /\ UNCHANGED <<accuracy, assignments>>
                /\ spike_record' =
                     [spike_record EXCEPT ![TrainSlot(s, update_interval) + 1] =
                                              Spikes("train", epoch, s)]
                /\ IF Plots(train_data[s + 1], num_inputs)
                   THEN UNCHANGED <<pc, raised>>
                   ELSE Raise("RuntimeError")
    /\ UNCHANGED <<encoder, err_printed, cfgVars, n_test, n_train,
                   parseVars, splitVars, network, epoch, all_activity_pred,
                   proportion_pred, confusion_matrix>>

\* lines 252-254: train_data is exhausted, or the guard breaks out
EndEpoch ==
    /\ pc = "sample"
    /\ LET s == step + 1 IN
        /\ s >= Len(train_data) \/ Breaks(s, n_train)
        /\ step' = IF s < Len(train_data) THEN s ELSE step
    /\ pc' = "epoch"
    /\ UNCHANGED <<raised, encoder, err_printed, cfgVars, n_test, n_train,
                   parseVars, splitVars, network, spike_record, labels, accuracy,
                   assignments, epoch, all_activity_pred, proportion_pred,
                   confusion_matrix>>

\* lines 366-381: line 366 reads epoch, which no statement has bound when the
\* epoch loop ran zero times
Trained ==
    /\ pc = "trained"
    /\ IF epoch = NoEpoch
       THEN /\ Raise("NameError")
            /\ UNCHANGED <<accuracy, confusion_matrix, spike_record, network, step>>
       ELSE /\ accuracy' = [all |-> 0, proportion |-> 0]
            /\ confusion_matrix' = NoCounts
            /\ spike_record' = ZeroRecord(update_interval)
            /\ network' = "eval"
            /\ step' = -1
            /\ pc' = "test"
            /\ UNCHANGED raised
    /\ UNCHANGED <<encoder, err_printed, cfgVars, n_test, n_train, parseVars,
                   splitVars, labels, assignments, epoch, all_activity_pred,
                   proportion_pred>>

\* lines 425-430: the tensors the predictions are compared with
PositiveLabel(g) == IF g THEN 0 ELSE 1
NegativeLabel(g) == IF g THEN 1 ELSE 0

\* torch.sum(a == b) with b of shape [1] broadcast over the vector a
CountEq(v, x) == Cardinality({i \in 1 .. Len(v) : v[i] = x})

\* lines 432-435: one sample's TP, FP, TN, FN
Confusion(pred, lbl, P, N) ==
    [TP |-> IF lbl = P THEN CountEq(pred, P) ELSE 0,
     FP |-> IF lbl = N THEN CountEq(pred, P) ELSE 0,
     TN |-> IF lbl = N THEN CountEq(pred, N) ELSE 0,
     FN |-> IF lbl = P THEN CountEq(pred, N) ELSE 0]

\* all_activity / proportion_weighting: one prediction in 0 .. n_labels-1 per slot
\* of the record passed in, a function of the slot's content
Predictions(rec, n_labels) ==
    LET C == {rec[i] : i \in 1 .. Len(rec)}
    IN {AsSeq([i \in 1 .. Len(rec) |-> f[rec[i]]]) : f \in [C -> 0 .. (n_labels - 1)]}

\* lines 383-447: one test sample.  The slots line 400 never writes stay zero
\* and the assignments no longer change, so their predictions repeat.
TestSample ==
    /\ pc = "test"
    /\ LET s == step + 1 IN
        /\ s < Len(test_data)
        /\ ~Breaks(s, n_test)
        /\ step' = s
        /\ IF ~Fits(test_data[s + 1], num_inputs)
           THEN /\ Raise("RuntimeError")
                /\ UNCHANGED <<spike_record, all_activity_pred, proportion_pred,
                               accuracy, confusion_matrix>>
           ELSE /\ spike_record' =
                     [spike_record EXCEPT ![TestSlot(s, update_interval) + 1] =
                                              Spikes("test", 0, s)]
                /\ all_activity_pred' \in Predictions(spike_record', n_classes)
                /\ proportion_pred' \in Predictions(spike_record', n_classes)
                /\ s > 0 => \A i \in 2 .. update_interval :
                               /\ all_activity_pred'[i] = all_activity_pred[i]
                               /\ proportion_pred'[i] = proportion_pred[i]
                /\ LET lbl == test_data[s + 1].label
                       c == Confusion(all_activity_pred', lbl,
                                      PositiveLabel(gpu), NegativeLabel(gpu))
                   IN /\ accuracy' =
                           [all |-> accuracy.all
                                    + CountEq(all_activity_pred', lbl),
                            proportion |-> accuracy.proportion
                                           + CountEq(proportion_pred', lbl)]
                      /\ confusion_matrix' =
                           [TP |-> confusion_matrix.TP + c.TP,
                            FP |-> confusion_matrix.FP + c.FP,
                            TN |-> confusion_matrix.TN + c.TN,
                            FN |-> confusion_matrix.FN + c.FN]
                /\ UNCHANGED <<pc, raised>>
    /\ UNCHANGED <<encoder, err_printed, cfgVars, n_test, n_train,
                   parseVars, splitVars, network, labels, assignments, epoch>>

\* lines 383-385 and 449-454: test_data is exhausted, or the guard breaks out;
\* then the report, whose three rates divide by TP + FN and by FP + TN
Report ==
    /\ pc = "test"
    /\ LET s == step + 1 IN
        /\ s >= Len(test_data) \/ Breaks(s, n_test)
        /\ step' = IF s < Len(test_data) THEN s ELSE step
    /\ IF confusion_matrix.TP + confusion_matrix.FN = 0
          \/ confusion_matrix.FP + confusion_matrix.TN = 0
       THEN Raise("ZeroDivisionError")
       ELSE pc' = "done" /\ UNCHANGED raised
    /\ UNCHANGED <<encoder, err_printed, cfgVars, n_test, n_train, parseVars,
                   splitVars, network, spike_record, labels, accuracy,
                   assignments, epoch, all_activity_pred, proportion_pred,
                   confusion_matrix>>

\* the token counts of the data lines the whole pipeline is run on: a one-token
\* line, and the line that yields the PlotFeatures features lines 339-340 need
PipelineTokens ==
    {1, CHOOSE n \in 1 .. (PlotFeatures + Fft4Start) : Features(n) = PlotFeatures}
PipelineLines == LinesOf(PipelineTokens)

Next ==
    \/ EncoderSelection
    \/ ParseLine(PipelineLines, MaxSamples)
    \/ CloseFile
    \/ Split
    \/ Build
    \/ EpochHead
    \/ TrainSample
    \/ EndEpoch
    \/ Trained
    \/ TestSample
    \/ Report

Spec == Init /\ [][Next]_vars

\* the parsing stages alone, on lines of every token count up to MaxTokens
AllLines == LinesOf(0 .. MaxTokens)

NextParse ==
    \/ EncoderSelection
    \/ ParseLine(AllLines, MaxParsed)
    \/ CloseFile

SpecParse == InitParse /\ [][NextParse]_vars

(* ============================== claims ================================ *)
Range(q) == {q[i] : i \in 1 .. Len(q)}
Stage(p) ==
    CASE p = "encoder" -> 0
      [] p = "parse" -> 1
      [] p = "split" -> 2
      [] p = "build" -> 3
      [] p \in {"epoch", "sample", "trained"} -> 4
      [] p = "test" -> 5
      [] OTHER -> 6
TestSimulated == \E r \in Range(spike_record) : r.phase = "test"

\* C1: the stages run in one fixed order and none is entered again once left;
\* a test sample is simulated only after all n_epochs epochs have finished and
\* network.train(mode=False) was called, and once a test sample has been
\* simulated no training sample is simulated any more.
C1_StageOrder ==
    /\ [](TestSimulated =>
            /\ pc \in {"test", "done", "crashed"}
            /\ network = "eval"
            /\ epoch = n_epochs - 1
            /\ \A r \in Range(spike_record) : r.phase # "train")
    /\ [][/\ Stage(pc') >= Stage(pc)
          /\ TestSimulated => \A r \in Range(spike_record') : r.phase # "train"]_vars

C1_Witness ==
    /\ pc = "done"
    /\ n_epochs = 2
    /\ ~train
    /\ spike_record[1] = Spikes("test", 0, 1)

\* C2: after encoder selection an unrecognised name has printed the message and
\* left encoder unbound, a recognised name has bound exactly its encoder and
\* printed nothing; either way the step after selection is dataset parsing.
C2_EncoderSelection ==
    /\ [](pc # "encoder" =>
            IF enocder_type \in
                 {"PoissonEncoder", "RankOrderEncoder", "RankOrderTTFSEncoder",
                  "BernoulliEncoder", "SingleEncoder", "RepeatEncoder"}
            THEN encoder = enocder_type /\ ~err_printed
            ELSE encoder = "unbound" /\ err_printed)
    /\ [][pc = "encoder" => pc' = "parse" /\ raised' = "none"]_vars

C2_Witness ==
    /\ pc = "parse"
    /\ enocder_type = "LatencyEncoder"
    /\ err_printed
    /\ encoder = "unbound"
    /\ line.kind = "comment"

\* C3: every sample the network was simulated on has a step index below the
\* length of its list: training records have 0 <= step < n_train, test records
\* 0 <= step < n_test.
C3_StepInBounds ==
    \A r \in Range(spike_record) :
        /\ r.phase = "train" => 0 <= r.step /\ r.step < n_train
                                /\ n_train = Len(train_data)
        /\ r.phase = "test" => 0 <= r.step /\ r.step < n_test
                               /\ n_test = Len(test_data)

C3_Witness ==
    /\ pc = "sample"
    /\ n_train = 3
    /\ step = n_train - 1
    /\ spike_record = <<Spikes("train", 1, 2), Spikes("train", 1, 1)>>

InTraining == pc \in {"epoch", "sample", "trained"} /\ epoch >= 0 /\ network = "train"

\* C4 as stated: after k >= 1 training samples, counted over all epochs, the
\* occupied slots hold exactly the min(k, update_interval) most recent samples.
C4_Original ==
    InTraining =>
        LET k == epoch * n_train + step + 1
            m == Min(k, update_interval)
        IN k >= 1 =>
            {r \in Range(spike_record) : r.phase # "zeros"} =
            {Spikes("train", (g - 1) \div n_train, (g - 1) % n_train) :
                g \in (k - m + 1) .. k}

\* C4 amended: the buffer has exactly update_interval slots and rolls within an
\* epoch: after steps 0..s of the current epoch, the slots hold the
\* min(s+1, update_interval) most recent samples of that epoch, each at slot
\* step % update_interval; every other slot holds zeros or a record an earlier
\* epoch left at that same slot rule.
C4_RollsWithinEpoch ==
    /\ pc \in {"epoch", "sample", "trained", "test", "done"} =>
          Len(spike_record) = update_interval
    /\ InTraining =>
          /\ \A j \in Max(0, step - update_interval + 1) .. step :
                spike_record[(j % update_interval) + 1] = Spikes("train", epoch, j)
          /\ \A i \in 1 .. Len(spike_record) :
                \/ spike_record[i] = Zero
                \/ /\ spike_record[i].phase = "train"
                   /\ spike_record[i].step % update_interval = i - 1
                   /\ spike_record[i].epoch <= epoch

C4_Witness ==
    /\ pc = "sample"
    /\ update_interval = 2
    /\ n_train = 3
    /\ spike_record = <<Spikes("train", 1, 0), Spikes("train", 0, 1)>>

ReadStep == pc = "parse" /\ pc' \in {"parse", "crashed"}

\* C5 as stated: every line that is neither a comment nor blank has produced
\* one sample labelled with its last token, so samples and classes both number
\* the non-comment, non-blank lines read.
C5_Original ==
    pc \in {"parse", "split", "crashed"} =>
        /\ Len(wave_data) = nonblank
        /\ Len(classes) = nonblank
        /\ (line.kind \notin {"none", "comment"} /\ line.n > 0) =>
              wave_data # <<>> /\ Last(wave_data).label = line.last

\* C5 amended: a comment line and a blank line are skipped without a sample and
\* without ending the run; any other line either appends exactly one sample,
\* labelled with the line's last token, after the samples of the earlier
\* lines, or raises and ends the run with no sample for it; so while no
\* exception was raised samples and classes both number the non-comment,
\* non-blank lines read.
C5_OneSamplePerParsedLine ==
    /\ [](raised = "none" =>
            /\ Len(wave_data) = nonblank
            /\ classes = [i \in 1 .. Len(wave_data) |-> wave_data[i].label])
    /\ [][ReadStep =>
            /\ (line'.kind = "comment" \/ (line'.kind = "tokens" /\ line'.n = 0)) =>
                  /\ pc' = "parse"
                  /\ wave_data' = wave_data
                  /\ classes' = classes
            /\ (line'.kind = "tokens" /\ line'.n > 0 /\ pc' = "parse") =>
                  /\ Len(wave_data') = Len(wave_data) + 1
                  /\ SubSeq(wave_data', 1, Len(wave_data)) = wave_data
                  /\ Last(wave_data').label = line'.last
                  /\ classes' = Append(classes, line'.last)
            /\ pc' = "crashed" =>
                  /\ wave_data' = wave_data
                  /\ line'.kind \in {"tokens", "malformed"}
                  /\ line'.kind = "tokens" => line'.n > 0]_vars

C5_Witness ==
    /\ pc = "parse"
    /\ Len(wave_data) = 2
    /\ wave_data[1].label = 0
    /\ wave_data[2].label = 1
    /\ nonblank = 2
    /\ line.kind = "comment"

ScoringStep ==
    /\ pc = "sample" /\ pc' = "sample"
    /\ step' = step + 1
    /\ step' % update_interval = 0
    /\ step' > 0

\* C6: whenever the training loop scores and re-assigns, labels has exactly
\* update_interval entries, labels[i] is the label of the sample of the current
\* epoch whose record sits in slot i, the assignment is computed from that
\* window, and afterwards labels holds nothing but the current sample's label.
C6_ConsistentWindow ==
    [][ScoringStep =>
         /\ Len(labels) = update_interval
         /\ \A i \in 1 .. update_interval :
               /\ spike_record[i].phase = "train"
               /\ spike_record[i].epoch = epoch
               /\ spike_record[i].step = step' - update_interval + (i - 1)
               /\ labels[i] = train_data[spike_record[i].step + 1].label
         /\ assignments' = [spikes |-> spike_record, labels |-> labels]
         /\ labels' = <<train_data[step' + 1].label>>]_vars

C6_Witness ==
    /\ pc = "sample"
    /\ epoch = 1
    /\ step = 2
    /\ update_interval = 2
    /\ assignments.labels = <<0, 1>>
    /\ assignments.spikes = <<Spikes("train", 1, 0), Spikes("train", 1, 1)>>
    /\ labels = <<1>>

TestStep == pc = "test" /\ pc' = "test" /\ step' = step + 1

\* C7: on either device path a test sample adds to TP the predictions equal to
\* 1 when its label is 1, to FP those equal to 1 when its label is 0, to TN
\* those equal to 0 when its label is 0 and to FN those equal to 0 when its
\* label is 1.
C7_PositiveIsOne ==
    [][TestStep =>
         LET lbl == test_data[step' + 1].label
             ones == Cardinality({i \in 1 .. Len(all_activity_pred') :
                                     all_activity_pred'[i] = 1})
             zeros == Cardinality({i \in 1 .. Len(all_activity_pred') :
                                      all_activity_pred'[i] = 0})
         IN /\ confusion_matrix'.TP =
                 confusion_matrix.TP + (IF lbl = 1 THEN ones ELSE 0)
            /\ confusion_matrix'.FP =
                 confusion_matrix.FP + (IF lbl = 0 THEN ones ELSE 0)
            /\ confusion_matrix'.TN =
                 confusion_matrix.TN + (IF lbl = 0 THEN zeros ELSE 0)
            /\ confusion_matrix'.FN =
                 confusion_matrix.FN + (IF lbl = 1 THEN zeros ELSE 0)]_vars

\* C8: after k test samples accuracy["all"] and accuracy["proportion"] both
\* lie in 0 .. k.
C8_AtMostOnePerSample ==
    (network = "eval" /\ pc \in {"test", "done", "crashed"}) =>
        /\ 0 <= accuracy.all /\ accuracy.all <= step + 1
        /\ 0 <= accuracy.proportion /\ accuracy.proportion <= step + 1

\* C9: while training, accuracy["all"] and accuracy["proportion"] have one
\* entry per scoring point passed: floor((n_train-1)/update_interval) for
\* each finished epoch plus floor(step/update_interval) in the current one,
\* n_epochs * floor((n_train-1)/update_interval) when training ends; an epoch
\* starts with labels empty, so what was collected after the last scoring
\* point of the epoch before never reaches an assignment.
C9_ScoringCount ==
    LET perEpoch == (n_train - 1) \div update_interval IN
    /\ (network = "train" /\ pc \in {"epoch", "sample", "trained"}) =>
          /\ Len(accuracy.all) = Len(accuracy.proportion)
          /\ Len(accuracy.all) =
               IF epoch = NoEpoch THEN 0
               ELSE IF pc = "sample"
                    THEN epoch * perEpoch
                         + (IF step >= 0 THEN step \div update_interval ELSE 0)
                    ELSE (epoch + 1) * perEpoch
          /\ (pc = "sample" /\ step = -1) => labels = <<>>
          /\ assignments # NoAssignments =>
                \A r \in Range(assignments.spikes) : r.phase = "train"
          /\ assignments.labels # <<>> =>
                Len(assignments.labels) = update_interval
    /\ (network = "train" /\ pc = "trained") =>
          Len(accuracy.all) = n_epochs * perEpoch

C9_Witness ==
    /\ pc = "trained"
    /\ network = "train"
    /\ n_epochs = 2
    /\ n_train = 3
    /\ update_interval = 2
    /\ Len(accuracy.all) = 2
    /\ Len(accuracy.proportion) = 2
    /\ Len(labels) = 1

FedIndices == UNION {fft_in[i] : i \in 1 .. Len(fft_in)}
DataLineRead == pc \in {"parse", "crashed"} /\ line.kind = "tokens" /\ line.n > 0

\* C10 as stated: for a line of any token count the indices handed to the FFT
\* never include the last index len-1.
C10_Original == DataLineRead => (line.n - 1) \notin FedIndices

\* C10 amended: for a line of at least 257 tokens the indices handed to the
\* FFT never include len-1; for a shorter line they include it exactly when
\* len-1 lies in 16..79, 96..159 or 192..255, and such a line raises
\* ValueError at a later, empty slice before any sample is made of it.
C10_LabelOutsideWindows ==
    DataLineRead =>
        /\ line.n >= 257 => (line.n - 1) \notin FedIndices
        /\ (line.n - 1) \in FedIndices => pc = "crashed" /\ raised = "ValueError"
        /\ line.n < 257 =>
              ((line.n - 1) \in FedIndices <=>
                 (line.n - 1) \in (16 .. 79) \cup (96 .. 159) \cup (192 .. 255))
        /\ FedIndices \subseteq
              (16 .. 79) \cup (96 .. 159) \cup (192 .. 255) \cup (256 .. (line.n - 2))

C10_Witness ==
    /\ pc = "parse"
    /\ line.kind = "tokens"
    /\ line.n = 258
    /\ Len(fft_in) = 4
    /\ fft_in[4] = {256}
    /\ wave_data # <<>>

====
